---- MODULE Spec2Model ----
(***************************************************************************)
(* A model of scripts/empty-repos-scanner.js: the EmptyReposScanner class  *)
(* (scanRepositories, analyzeRepository, generateReportBody,               *)
(* createReportIssue, run) together with the GitHub client it is handed.   *)
(*                                                                         *)
(* Text is modelled as sequences of one-character strings, so that the     *)
(* README regular expression is evaluated character by character.          *)
(***************************************************************************)
EXTENDS Integers, Sequences, FiniteSets, TLC

VARIABLES
    entry,         \* the method the caller invoked
    org,           \* argument org
    visibility,    \* argument visibility ("undefined" when omitted)
    listing,       \* what github.paginate(listForOrg) will answer
    repos,         \* scanRepositories: const repos
    i,             \* scanRepositories: position of the for-of loop in repos
    empty,         \* scanRepositories: const empty = []
    readmeOnly,    \* scanRepositories: const readmeOnly = []
    inflight,      \* getContent requests sent and not yet answered
    fetched,       \* every getContent request sent so far, in order
    response,      \* the last answer of getContent
    outcome,       \* the last return value or throw of analyzeRepository
    clock,         \* the wall clock, in half days since the run started
    today,         \* createReportIssue: const today
    body,          \* the text generateReportBody returned
    createdIssues, \* the issues.create calls the tracker has received
    result,        \* what the invoked method returned
    error,         \* what the invoked method threw
    pc             \* where the invoked method stands

vars == <<entry, org, visibility, listing, repos, i, empty, readmeOnly, inflight,
          fetched, response, outcome, clock, today, body, createdIssues, result,
          error, pc>>

----------------------------------------------------------------------------
(* Bounds *)

\* longest suffix appended to a base name when file names are enumerated
MaxSuffix == 4
\* longest root-content listing enumerated for analyzeRepository
MaxEntries == 3
\* longest organization listing enumerated for a scan
MaxRepos == 2
\* how far the clock may advance during one call, in half days
MaxClock == 2
\* longest empty and readmeOnly arguments enumerated for generateReportBody
MaxRows == 2

----------------------------------------------------------------------------
(* Characters and names *)

Lower == <<"a","b","c","d","e","f","g","h","i","j","k","l","m",
           "n","o","p","q","r","s","t","u","v","w","x","y","z">>
Upper == <<"A","B","C","D","E","F","G","H","I","J","K","L","M",
           "N","O","P","Q","R","S","T","U","V","W","X","Y","Z">>

IndexIn(seq, ch) == CHOOSE k \in 1..Len(seq) : seq[k] = ch

IsLower(ch) == \E k \in 1..Len(Lower) : Lower[k] = ch

\* The case folding a regular expression with the i flag (and no u flag)
\* applies to a pattern character and to an input character: toUpperCase,
\* kept only when it does not turn a non-ASCII character into an ASCII one.
Canonicalize(ch) ==
    IF IsLower(ch) THEN Upper[IndexIn(Lower, ch)]
    ELSE IF ch = "é" THEN "É"
    ELSE ch

\* The class [a-z] under the i flag: some member of the class folds to the
\* same character as the input character.
InClassAZ(ch) == \E k \in 1..Len(Lower) : Canonicalize(Lower[k]) = Canonicalize(ch)

README_literal == <<"R","E","A","D","M","E">>

\* End positions (index of the next unread character) of the literal README
\* matched at position pos of s, case-insensitively.
MatchLiteral(s, pos) ==
    IF /\ pos + Len(README_literal) - 1 <= Len(s)
       /\ \A k \in 1..Len(README_literal) :
             Canonicalize(s[pos + k - 1]) = Canonicalize(README_literal[k])
    THEN {pos + Len(README_literal)}
    ELSE {}

\* End positions of [a-z]+ matched at pos: every non-empty run of class
\* characters starting at pos (the greedy match and all its backtracks).
MatchClassPlus(s, pos) ==
    {e \in (pos + 1)..(Len(s) + 1) : \A k \in pos..(e - 1) : InClassAZ(s[k])}

\* End positions of the group (\.[a-z]+) matched at pos.
MatchGroup(s, pos) ==
    IF pos <= Len(s) /\ s[pos] = "."
    THEN MatchClassPlus(s, pos + 1)
    ELSE {}

\* End positions of (\.[a-z]+)? matched at pos.
MatchOptGroup(s, pos) == MatchGroup(s, pos) \cup {pos}

\* The same regular expression without its $ anchor.
README_test_unanchored(s) ==
    \E p1 \in MatchLiteral(s, 1) : MatchOptGroup(s, p1) # {}

\* /^README(\.[a-z]+)?$/i.test(s): ^ pins the start to position 1 and $
\* (no m flag) accepts only the end of the input.
README_test(s) ==
    \E p1 \in MatchLiteral(s, 1) :
        \E p2 \in MatchOptGroup(s, p1) : p2 = Len(s) + 1

----------------------------------------------------------------------------
(* Inputs: file names *)

RECURSIVE SeqsUpTo(_, _)
SeqsUpTo(S, n) ==
    IF n = 0 THEN {<<>>}
    ELSE LET shorter == SeqsUpTo(S, n - 1)
         IN  shorter \cup {Append(q, c) : q \in {r \in shorter : Len(r) = n - 1}, c \in S}

SuffixAlphabet == {".", "m", "D", "1", "-", "é"}

Bases == { <<"R","E","A","D","M","E">>,
           <<"r","e","a","d","m","e">>,
           <<"R","e","a","d","M","e">>,
           <<"R","E","A","D","M">>,
           <<"R","E","E","D","M","E">> }

Prefixes == { <<>>, <<"N","O","T">> }

LiteralNames ==
    { <<"R","E","A","D","M","E">>,
      <<"R","E","A","D","M","E",".","m","d">>,
      <<"R","E","A","D","M","E",".","t","x","t">>,
      <<"r","e","a","d","m","e",".","m","d">>,
      <<"R","e","a","d","M","e",".","r","s","t">>,
      <<"N","O","T","R","E","A","D","M","E",".","m","d">>,
      <<"R","E","A","D","M","E","-","o","l","d",".","m","d">>,
      <<"R","E","A","D","M","E",".","m","d",".","b","a","k">>,
      <<"R","E","A","D","M","E",".","1">>,
      <<"R","E","A","D","M","E",".">>,
      <<"R","E","A","D","M","E","\n">>,
      <<"s","r","c">> }

Names ==
    LiteralNames \cup
    {p \o b \o x : p \in Prefixes, b \in Bases, x \in SeqsUpTo(SuffixAlphabet, MaxSuffix)}

EntryTypes == {"file", "dir"}

\* The names used where whole listings are enumerated.
PoolNames == { <<"R","E","A","D","M","E">>,
               <<"r","e","a","d","m","e",".","m","d">>,
               <<"s","r","c">> }

EntryPool == [name : PoolNames, type : EntryTypes]

----------------------------------------------------------------------------
(* The GitHub client: repos.getContent *)

\* Errors getContent can reject with: HTTP errors carry a status, a network
\* fault carries none.
HttpErrors == [status : {409, 403, 404, 500}]
NetworkErrors == [message : {"network"}]
FetchErrors == HttpErrors \cup NetworkErrors

ErrResponse(e) == [kind |-> "reject", error |-> e]
\* res.data is an array for a directory and a single object for a file path
ArrayResponse(list) == [kind |-> "array", data |-> list]
ObjectResponse(file) == [kind |-> "object", data |-> file]

\* e.status === 409
IsNoContent(e) == "status" \in DOMAIN e /\ e.status = 409

----------------------------------------------------------------------------
(* analyzeRepository *)

Return(v) == [kind |-> "return", value |-> v]
Throw(e) == [kind |-> "throw", error |-> e]

\* contents.filter(file => !/^README(\.[a-z]+)?$/i.test(file.name))
NonReadmes(contents) ==
    LET isNonReadme(file) == ~README_test(file.name)
    IN  SelectSeq(contents, isNonReadme)

\* The status with the README test applied to some entry instead of all.
StatusOf_someReadme(contents) ==
    IF Len(contents) = 0 THEN "empty"
    ELSE IF Len(NonReadmes(contents)) < Len(contents) THEN "readme-only"
    ELSE "populated"

\* The status computed from the contents, lines 70-82.
StatusOf(contents) ==
    IF Len(contents) = 0 THEN "empty"
    ELSE IF Len(NonReadmes(contents)) = 0 THEN "readme-only"
    ELSE "populated"

\* analyzeRepository with a catch that takes every failure for an empty
\* repository.
analyzeRepository_swallow(res) ==
    IF res.kind = "reject"
    THEN Return(StatusOf(<<>>))
    ELSE LET contents == IF res.kind = "array" THEN res.data ELSE <<res.data>>
         IN  Return(StatusOf(contents))

\* The whole of analyzeRepository, as a function of what getContent answers.
analyzeRepository(res) ==
    IF res.kind = "reject"
    THEN IF IsNoContent(res.error)
         THEN Return(StatusOf(<<>>))
         ELSE Throw(res.error)
    ELSE LET contents == IF res.kind = "array" THEN res.data ELSE <<res.data>>
         IN  Return(StatusOf(contents))

----------------------------------------------------------------------------
(* Specification SpecAnalyze: analyzeRepository called on its own *)

Responses ==
    {ErrResponse(e) : e \in FetchErrors}
    \cup {ArrayResponse(l) : l \in SeqsUpTo(EntryPool, MaxEntries)}
    \cup {ObjectResponse(en) : en \in EntryPool}
    \cup {ArrayResponse(<<[name |-> n, type |-> t]>>) : n \in Names, t \in EntryTypes}

Pending == [kind |-> "pending"]
None == [kind |-> "none"]

\* The variables a call leaves at their initial values.
ScanIdle ==
    /\ listing = <<>> /\ repos = <<>> /\ i = 0
    /\ empty = <<>> /\ readmeOnly = <<>>
    /\ inflight = {} /\ fetched = <<>>
    /\ createdIssues = <<>> /\ today = None /\ error = None

InitAnalyze ==
    /\ entry = "analyzeRepository"
    /\ org = "test-org"
    /\ visibility = "undefined"
    /\ ScanIdle
    /\ response \in Responses
    /\ outcome = Pending
    /\ clock = 0
    /\ body = <<>>
    /\ result = None
    /\ pc = "call"

AnalyzeCall ==
    /\ entry = "analyzeRepository"
    /\ pc = "call"
    /\ outcome' = analyzeRepository(response)
    /\ pc' = "done"
    /\ UNCHANGED <<entry, org, visibility, listing, repos, i, empty, readmeOnly,
                   inflight, fetched, response, clock, today, body, createdIssues,
                   result, error>>

NextAnalyze == AnalyzeCall

SpecAnalyze == InitAnalyze /\ [][NextAnalyze]_vars

----------------------------------------------------------------------------
(* The clock: new Date().toISOString().slice(0, 10) *)

TwoDigits(n) == IF n < 10 THEN "0" \o ToString(n) ELSE ToString(n)

\* The UTC date of an instant; the call starts at 00:00 UTC on the 1st, when
\* the monthly schedule fires, and the clock counts half days from there.
DateOf(c) == "2026-11-" \o TwoDigits(1 + (c \div 2))

----------------------------------------------------------------------------
(* generateReportBody: the text, as the sequence of the pieces the template *)
(* strings concatenate                                                      *)

TableHeader == "| Repository | Status |\n| --- | --- |\n"
Footer == "\n_Automatically generated on the 1st of each month._"

RECURSIVE Rows(_, _)
\* for (const repo of list) body += `| ${repo} | <status> |\n`
Rows(list, status) ==
    IF list = <<>> THEN <<>>
    ELSE <<"| ", Head(list), " | " \o status \o " |\n">> \o Rows(Tail(list), status)

\* The report with the README-only rows written before the empty rows.
generateReportBody_readmeFirst(o, v, e, r, now) ==
    <<"# Empty Repo Report for '", o, "' (", DateOf(now), ")\n\n">>
    \o <<"**Visibility:** ", v, "\n\n">>
    \o <<TableHeader>>
    \o Rows(r, "README-only")
    \o Rows(e, "empty")
    \o <<Footer>>

\* (the backquotes around the organization are written ' here: a TLA+ string
\* cannot hold a backquote)
generateReportBody(o, v, e, r, now) ==
    <<"# Empty Repo Report for '", o, "' (", DateOf(now), ")\n\n">>
    \o <<"**Visibility:** ", v, "\n\n">>
    \o <<TableHeader>>
    \o Rows(e, "empty")
    \o Rows(r, "README-only")
    \o <<Footer>>

----------------------------------------------------------------------------
(* The GitHub client: paginate(listForOrg), issues.create; the context *)

ContextRepo == [owner |-> "tracker-owner", repo |-> "tracker-repo"]

RepoNames == {"a", "b", "c"}

\* The descriptors the organization listing is made of.
Descriptors(o) ==
    {[name |-> n, full_name |-> o \o "/" \o n, private |-> p, archived |-> a] :
        n \in RepoNames, p \in BOOLEAN, a \in BOOLEAN}

\* The answers of paginate: a repository has one descriptor, and a listing
\* may hold it more than once (a page boundary that moves while the pages are
\* being read repeats an element).
Listings(o) ==
    {l \in SeqsUpTo(Descriptors(o), MaxRepos) :
        \A j, k \in 1..Len(l) : l[j].name = l[k].name => l[j] = l[k]}

\* What getContent answers during a scan.
ScanResponses ==
    { ErrResponse([status |-> 409]),
      ErrResponse([status |-> 403]),
      ErrResponse([message |-> "network"]),
      ArrayResponse(<<>>),
      ArrayResponse(<<[name |-> <<"r","e","a","d","m","e",".","m","d">>, type |-> "file"]>>),
      ArrayResponse(<<[name |-> <<"R","E","A","D","M","E">>, type |-> "file"],
                      [name |-> <<"s","r","c">>, type |-> "dir"]>>) }

ClientErrors == {[status |-> 500]}

----------------------------------------------------------------------------
(* scanRepositories and run *)

VisibilityArgs == {"undefined", "all", "public", "private"}

\* a parameter default: visibility = 'all'
DefaultVisibility(v) == IF v = "undefined" THEN "all" ELSE v

\* The skips with the two visibility tests exchanged.
Skipped_inverted(repo, v) ==
    \/ v = "public" /\ ~repo.private
    \/ v = "private" /\ repo.private
    \/ repo.archived

\* The skips without the archived test.
Skipped_keepArchived(repo, v) ==
    \/ v = "public" /\ repo.private
    \/ v = "private" /\ ~repo.private

\* lines 29-33: the three continue statements
Skipped(repo, v) ==
    \/ v = "public" /\ repo.private
    \/ v = "private" /\ ~repo.private
    \/ repo.archived

Live == pc \notin {"done", "failed"}

Init ==
    /\ entry \in {"run", "scanRepositories"}
    /\ org = "test-org"
    /\ visibility \in VisibilityArgs
    /\ listing \in Listings(org)
    /\ repos = <<>>
    /\ i = 0
    /\ empty = <<>>
    /\ readmeOnly = <<>>
    /\ inflight = {}
    /\ fetched = <<>>
    /\ response = None
    /\ outcome = None
    /\ clock = 0
    /\ today = None
    /\ body = <<>>
    /\ createdIssues = <<>>
    /\ result = None
    /\ error = None
    /\ pc = "paginate"

\* lines 18-25: the listing arrives
PaginateReturn ==
    /\ entry \in {"run", "scanRepositories"}
    /\ pc = "paginate"
    /\ visibility' = DefaultVisibility(visibility)
    /\ repos' = listing
    /\ i' = 1
    /\ empty' = <<>>
    /\ readmeOnly' = <<>>
    /\ pc' = "loop"
    /\ UNCHANGED <<entry, org, listing, inflight, fetched, response, outcome, clock,
                   today, body, createdIssues, result, error>>

\* lines 19-22: the listing request fails
PaginateReject ==
    /\ entry \in {"run", "scanRepositories"}
    /\ pc = "paginate"
    /\ \E e \in ClientErrors : error' = e
    /\ pc' = "failed"
    /\ UNCHANGED <<entry, org, visibility, listing, repos, i, empty, readmeOnly,
                   inflight, fetched, response, outcome, clock, today, body,
                   createdIssues, result>>

\* lines 27-33: the repository is skipped
LoopSkip ==
    /\ pc = "loop"
    /\ i <= Len(repos)
    /\ Skipped(repos[i], visibility)
    /\ i' = i + 1
    /\ UNCHANGED <<entry, org, visibility, listing, repos, empty, readmeOnly,
                   inflight, fetched, response, outcome, clock, today, body,
                   createdIssues, result, error, pc>>

\* The loop sending the request without awaiting its answer.
LoopFetch_parallel ==
    /\ pc = "loop"
    /\ i <= Len(repos)
    /\ ~Skipped(repos[i], visibility)
    /\ inflight' = inflight \cup {i}
    /\ fetched' = Append(fetched, i)
    /\ i' = i + 1
    /\ UNCHANGED <<entry, org, visibility, listing, repos, empty, readmeOnly,
                   response, outcome, clock, today, body, createdIssues, result,
                   error, pc>>

\* lines 35 and 56-60: analyzeRepository sends the getContent request
LoopFetch ==
    /\ pc = "loop"
    /\ i <= Len(repos)
    /\ ~Skipped(repos[i], visibility)
    /\ inflight' = inflight \cup {i}
    /\ fetched' = Append(fetched, i)
    /\ pc' = "await"
    /\ UNCHANGED <<entry, org, visibility, listing, repos, i, empty, readmeOnly,
                   response, outcome, clock, today, body, createdIssues, result,
                   error>>

\* Filing without looking at the status.
Filed_always(list, status, wanted, repo) == Append(list, repo.full_name)

\* lines 37-41: the status is filed
Filed(list, status, wanted, repo) ==
    IF status = wanted THEN Append(list, repo.full_name) ELSE list

\* The loop with a catch around its body that ends the scan and keeps what
\* was filed so far.
FetchReturn_partial ==
    /\ pc = "await"
    /\ \E r \in ScanResponses :
        LET out == analyzeRepository(r)
        IN  /\ response' = r
            /\ outcome' = out
            /\ inflight' = inflight \ {i}
            /\ IF out.kind = "throw"
               THEN /\ i' = Len(repos) + 1
                    /\ pc' = "loop"
                    /\ UNCHANGED <<error, empty, readmeOnly>>
               ELSE /\ empty' = Filed(empty, out.value, "empty", repos[i])
                    /\ readmeOnly' = Filed(readmeOnly, out.value, "readme-only", repos[i])
                    /\ i' = i + 1
                    /\ pc' = "loop"
                    /\ UNCHANGED error
    /\ UNCHANGED <<entry, org, visibility, listing, repos, fetched, clock, today,
                   body, createdIssues, result>>

\* lines 61-83 and 35-42: getContent answers, analyzeRepository returns or
\* throws, the loop files the repository and moves on
FetchReturn ==
    /\ pc = "await"
    /\ \E r \in ScanResponses :
        LET out == analyzeRepository(r)
        IN  /\ response' = r
            /\ outcome' = out
            /\ inflight' = inflight \ {i}
            /\ IF out.kind = "throw"
               THEN /\ error' = out.error
                    /\ pc' = "failed"
                    /\ UNCHANGED <<i, empty, readmeOnly>>
               ELSE /\ empty' = Filed(empty, out.value, "empty", repos[i])
                    /\ readmeOnly' = Filed(readmeOnly, out.value, "readme-only", repos[i])
                    /\ i' = i + 1
                    /\ pc' = "loop"
                    /\ UNCHANGED error
    /\ UNCHANGED <<entry, org, visibility, listing, repos, fetched, clock, today,
                   body, createdIssues, result>>

\* line 44, scanRepositories called on its own
ScanReturn ==
    /\ entry = "scanRepositories"
    /\ pc = "loop"
    /\ i > Len(repos)
    /\ result' = [empty |-> empty, readmeOnly |-> readmeOnly]
    /\ pc' = "done"
    /\ UNCHANGED <<entry, org, visibility, listing, repos, i, empty, readmeOnly,
                   inflight, fetched, response, outcome, clock, today, body,
                   createdIssues, error>>

\* lines 137-142: nothing to report
RunSkipIssue ==
    /\ entry = "run"
    /\ pc = "loop"
    /\ i > Len(repos)
    /\ Len(empty) + Len(readmeOnly) = 0
    /\ result' = [empty |-> empty, readmeOnly |-> readmeOnly, issueCreated |-> FALSE]
    /\ pc' = "done"
    /\ UNCHANGED <<entry, org, visibility, listing, repos, i, empty, readmeOnly,
                   inflight, fetched, response, outcome, clock, today, body,
                   createdIssues, error>>

\* run without the test of line 139.
CreateReportIssueCall_always ==
    /\ entry = "run"
    /\ pc = "loop"
    /\ i > Len(repos)
    /\ today' = DateOf(clock)
    /\ pc' = "generateReportBody"
    /\ UNCHANGED <<entry, org, visibility, listing, repos, i, empty, readmeOnly,
                   inflight, fetched, response, outcome, clock, body, createdIssues,
                   result, error>>

\* lines 137-144 and 119: createReportIssue is called and reads the date
CreateReportIssueCall ==
    /\ entry = "run"
    /\ pc = "loop"
    /\ i > Len(repos)
    /\ Len(empty) + Len(readmeOnly) # 0
    /\ today' = DateOf(clock)
    /\ pc' = "generateReportBody"
    /\ UNCHANGED <<entry, org, visibility, listing, repos, i, empty, readmeOnly,
                   inflight, fetched, response, outcome, clock, body, createdIssues,
                   result, error>>

\* lines 120 and 93-108
GenerateBody ==
    /\ pc = "generateReportBody"
    /\ body' = generateReportBody(org, visibility, empty, readmeOnly, clock)
    /\ pc' = "issues.create"
    /\ UNCHANGED <<entry, org, visibility, listing, repos, i, empty, readmeOnly,
                   inflight, fetched, response, outcome, clock, today, createdIssues,
                   result, error>>

\* line 125
Title(o, date) == <<"Monthly Repo Health: ", o, " (", date, ")">>

\* lines 122-127: issues.create is called and the tracker receives the call
IssuesCreate ==
    /\ pc = "issues.create"
    /\ createdIssues' = Append(createdIssues,
                               [owner |-> ContextRepo.owner, repo |-> ContextRepo.repo,
                                title |-> Title(org, today), body |-> body])
    /\ pc' = "await issues.create"
    /\ UNCHANGED <<entry, org, visibility, listing, repos, i, empty, readmeOnly,
                   inflight, fetched, response, outcome, clock, today, body, result,
                   error>>

\* lines 122 and 144: the call resolves
IssuesCreateReturn ==
    /\ pc = "await issues.create"
    /\ pc' = "created"
    /\ UNCHANGED <<entry, org, visibility, listing, repos, i, empty, readmeOnly,
                   inflight, fetched, response, outcome, clock, today, body,
                   createdIssues, result, error>>

\* lines 122 and 144: the call rejects, and the error leaves run
IssuesCreateReject ==
    /\ pc = "await issues.create"
    /\ \E e \in ClientErrors : error' = e
    /\ pc' = "failed"
    /\ UNCHANGED <<entry, org, visibility, listing, repos, i, empty, readmeOnly,
                   inflight, fetched, response, outcome, clock, today, body,
                   createdIssues, result>>

\* lines 146-151
RunReturn ==
    /\ pc = "created"
    /\ result' = [org |-> org, visibility |-> visibility, date |-> DateOf(clock),
                  empty |-> empty, readmeOnly |-> readmeOnly, issueCreated |-> TRUE]
    /\ pc' = "done"
    /\ UNCHANGED <<entry, org, visibility, listing, repos, i, empty, readmeOnly,
                   inflight, fetched, response, outcome, clock, today, body,
                   createdIssues, error>>

\* time passes while the call is under way
Tick ==
    /\ entry \in {"run", "scanRepositories"}
    /\ Live
    /\ clock < MaxClock
    /\ clock' = clock + 1
    /\ UNCHANGED <<entry, org, visibility, listing, repos, i, empty, readmeOnly,
                   inflight, fetched, response, outcome, today, body, createdIssues,
                   result, error, pc>>

Next ==
    \/ PaginateReturn
    \/ PaginateReject
    \/ LoopSkip
    \/ LoopFetch
    \/ FetchReturn
    \/ ScanReturn
    \/ RunSkipIssue
    \/ CreateReportIssueCall
    \/ GenerateBody
    \/ IssuesCreate
    \/ IssuesCreateReturn
    \/ IssuesCreateReject
    \/ RunReturn
    \/ Tick

Spec == Init /\ [][Next]_vars

----------------------------------------------------------------------------
(* Specification SpecReport: generateReportBody called on its own *)

Orgs == {"test-org", "acme"}

FullNames(o) == {o \o "/" \o n : n \in RepoNames}

InitReport ==
    /\ entry = "generateReportBody"
    /\ org \in Orgs
    /\ visibility \in {"all", "public", "private"}
    /\ listing = <<>> /\ repos = <<>> /\ i = 0
    /\ empty \in SeqsUpTo(FullNames(org), MaxRows)
    /\ readmeOnly \in SeqsUpTo(FullNames(org), MaxRows)
    /\ inflight = {} /\ fetched = <<>>
    /\ response = None /\ outcome = None
    /\ clock \in 0..MaxClock
    /\ today = None
    /\ body = <<>>
    /\ createdIssues = <<>>
    /\ result = None /\ error = None
    /\ pc = "call"

\* lines 93-108
ReportCall ==
    /\ entry = "generateReportBody"
    /\ pc = "call"
    /\ body' = generateReportBody(org, visibility, empty, readmeOnly, clock)
    /\ result' = Return(body')
    /\ pc' = "done"
    /\ UNCHANGED <<entry, org, visibility, listing, repos, i, empty, readmeOnly,
                   inflight, fetched, response, outcome, clock, today, createdIssues,
                   error>>

NextReport == ReportCall

SpecReport == InitReport /\ [][NextReport]_vars

----------------------------------------------------------------------------
(* The README pattern as the documentation words it, read directly off the *)
(* name: used to state properties, never to compute the scanner's result.  *)

IsAsciiLetter(ch) ==
    \/ \E k \in 1..Len(Lower) : Lower[k] = ch
    \/ \E k \in 1..Len(Upper) : Upper[k] = ch

SameLetterIgnoringCase(a, b) ==
    \E k \in 1..Len(Lower) : a \in {Lower[k], Upper[k]} /\ b \in {Lower[k], Upper[k]}

\* exactly README, or README followed by one dot and one or more letters
ReadmeNameShape(n) ==
    /\ Len(n) >= 6
    /\ \A k \in 1..6 : SameLetterIgnoringCase(n[k], README_literal[k])
    /\ \/ Len(n) = 6
       \/ /\ Len(n) >= 8
          /\ n[7] = "."
          /\ \A k \in 8..Len(n) : IsAsciiLetter(n[k])

\* the listing analyzeRepository worked on, when getContent answered with data
\* or with the no-content condition
ListingOf(res) ==
    IF res.kind = "array" THEN res.data
    ELSE IF res.kind = "object" THEN <<res.data>>
    ELSE <<>>

HasListing(res) == res.kind \in {"array", "object"} \/ IsNoContent(res.error)

AnalyzeDone == entry = "analyzeRepository" /\ pc = "done"

----------------------------------------------------------------------------
(* Claims about analyzeRepository, under SpecAnalyze *)

\* C1: analyzeRepository returns 'populated' whenever the listing contains a
\* directory entry (whatever its name) or a file whose name does not match the
\* README pattern.
C1_DirectoryOrNonReadmeIsPopulated ==
    (AnalyzeDone /\ HasListing(response)) =>
        LET contents == ListingOf(response)
        IN  (\E k \in 1..Len(contents) :
                \/ contents[k].type = "dir"
                \/ ~ReadmeNameShape(contents[k].name))
            => outcome = Return("populated")

\* C2: analyzeRepository is a total three-way function of the listing: 'empty'
\* iff the listing has no entries, 'readme-only' iff it is non-empty and every
\* entry's name matches the README pattern, 'populated' iff some entry's name
\* does not match; exactly one of the three is returned.
C2_ThreeWayClassification ==
    (AnalyzeDone /\ HasListing(response)) =>
        LET contents == ListingOf(response)
            allMatch == \A k \in 1..Len(contents) : ReadmeNameShape(contents[k].name)
        IN  /\ outcome.kind = "return"
            /\ outcome.value \in {"empty", "readme-only", "populated"}
            /\ (outcome.value = "empty") <=> (Len(contents) = 0)
            /\ (outcome.value = "readme-only") <=> (Len(contents) > 0 /\ allMatch)
            /\ (outcome.value = "populated") <=> ~allMatch

\* a listing of several README files and nothing else was classified
C2_Witness ==
    /\ AnalyzeDone
    /\ response.kind = "array"
    /\ Len(response.data) >= 2
    /\ response.data[1].name # response.data[2].name
    /\ outcome = Return("readme-only")

MatchingLiterals ==
    { <<"R","E","A","D","M","E">>,
      <<"R","E","A","D","M","E",".","m","d">>,
      <<"R","E","A","D","M","E",".","t","x","t">>,
      <<"r","e","a","d","m","e",".","m","d">>,
      <<"R","e","a","d","M","e",".","r","s","t">> }

NonMatchingLiterals ==
    { <<"N","O","T","R","E","A","D","M","E",".","m","d">>,
      <<"R","E","A","D","M","E","-","o","l","d",".","m","d">>,
      <<"R","E","A","D","M","E",".","m","d",".","b","a","k">>,
      <<"R","E","A","D","M","E",".","1">>,
      <<"R","E","A","D","M","E",".">> }

\* C9: a name matches the README pattern iff, ignoring case, it is exactly
\* README or README followed by one dot and one or more letters, anchored at
\* both ends; the listed literal names match or fail to match as stated.  A
\* listing of one entry is 'readme-only' exactly when its name matches.
C9_ReadmePatternAnchored ==
    (AnalyzeDone /\ response.kind = "array" /\ Len(response.data) = 1) =>
        LET n == response.data[1].name
        IN  /\ (outcome = Return("readme-only")) <=> ReadmeNameShape(n)
            /\ (outcome = Return("populated")) <=> ~ReadmeNameShape(n)
            /\ n \in MatchingLiterals => outcome = Return("readme-only")
            /\ n \in NonMatchingLiterals => outcome = Return("populated")

\* README.md.bak, a name with a second extension segment, was rejected
C9_Witness ==
    /\ AnalyzeDone
    /\ response = ArrayResponse(<<[name |-> <<"R","E","A","D","M","E",".","m","d",".","b","a","k">>,
                                   type |-> "file"]>>)
    /\ outcome = Return("populated")

----------------------------------------------------------------------------
(* Claims about scanRepositories and run, under Spec *)

Scanning == entry \in {"run", "scanRepositories"}

Range(q) == {q[k] : k \in 1..Len(q)}

Reported == Range(empty) \cup Range(readmeOnly)

Fatal(res) == res.kind = "reject" /\ ~IsNoContent(res.error)

\* C3: a failed content fetch gives 'empty' only for status 409; every other
\* failure is rethrown unchanged out of analyzeRepository and out of
\* scanRepositories, and is never turned into a status.
C3_OnlyNoContentIsSwallowed ==
    [][(Scanning /\ pc = "await" /\ pc' # "await" /\ response'.kind = "reject") =>
          /\ outcome' = Return("empty") => IsNoContent(response'.error)
          /\ outcome'.kind = "return" => outcome' = Return("empty")
          /\ ~IsNoContent(response'.error) =>
                /\ outcome' = Throw(response'.error)
                /\ pc' = "failed"
                /\ error' = response'.error
                /\ result' = None
                /\ empty' = empty
                /\ readmeOnly' = readmeOnly]_vars

\* scanRepositories threw the network fault of its second fetch
C3_Witness ==
    /\ entry = "scanRepositories"
    /\ pc = "failed"
    /\ Len(fetched) = 2
    /\ response = ErrResponse([message |-> "network"])
    /\ error = [message |-> "network"]

\* C4: if a content fetch of run fails with another error than no-content,
\* run fails with that error and issue creation is never invoked, however many
\* repositories were filed before.
C4_NoIssueAfterFatalFetch ==
    (entry = "run" /\ Fatal(response)) =>
        /\ pc = "failed"
        /\ error = response.error
        /\ result = None
        /\ createdIssues = <<>>
        /\ ~ENABLED Next

\* run failed at its second fetch, the first repository already filed
C4_Witness ==
    /\ entry = "run"
    /\ pc = "failed"
    /\ Fatal(response)
    /\ Len(empty) + Len(readmeOnly) >= 1

HasPiece(text, piece) == \E k \in 1..Len(text) : text[k] = piece

\* C5: run invokes issue creation at most once: never when the scan yields
\* nothing (run returns issueCreated = false), exactly once when it yields
\* something, with a title holding the organization and the current date and
\* the rendered report as body; run returns issueCreated = true with the scan's
\* sequences only after that creation.
C5_IssueAtMostOnce ==
    Scanning =>
        /\ Len(createdIssues) <= 1
        /\ createdIssues # <<>> =>
              /\ entry = "run"
              /\ i > Len(repos)
              /\ Len(empty) + Len(readmeOnly) > 0
              /\ HasPiece(createdIssues[1].title, org)
              /\ \E c \in 0..clock :
                    /\ HasPiece(createdIssues[1].title, DateOf(c))
                    /\ createdIssues[1].body \in
                          {generateReportBody(org, visibility, empty, readmeOnly, d) : d \in c..clock}
        /\ (entry = "run" /\ pc = "done") =>
              /\ result.empty = empty
              /\ result.readmeOnly = readmeOnly
              /\ result.issueCreated <=> (Len(empty) + Len(readmeOnly) > 0)
              /\ result.issueCreated <=> (Len(createdIssues) = 1)

\* run returned after creating one issue listing repositories of both kinds
C5_Witness ==
    /\ entry = "run"
    /\ pc = "done"
    /\ result.issueCreated
    /\ Len(createdIssues) = 1
    /\ Len(empty) >= 1
    /\ Len(readmeOnly) >= 1

\* out is made of the identifiers of some listing positions, taken in
\* listing order
PreservesListingOrder(out) ==
    \E f \in [1..Len(out) -> 1..Len(repos)] :
        /\ \A k \in 1..Len(out) : repos[f[k]].full_name = out[k]
        /\ \A j, k \in 1..Len(out) : j < k => f[j] < f[k]

NoRepeat(q) == \A j, k \in 1..Len(q) : j # k => q[j] # q[k]

FetchedNames == [k \in 1..Len(fetched) |-> repos[fetched[k]].name]

ScanOrderAndDisjoint ==
    /\ PreservesListingOrder(empty)
    /\ PreservesListingOrder(readmeOnly)
    /\ Range(empty) \cap Range(readmeOnly) = {}
    /\ NoRepeat(empty \o readmeOnly)
    /\ NoRepeat(FetchedNames)

\* C6 as stated: for any organization listing, the two sequences preserve the
\* listing order, share no identifier and hold each repository at most once,
\* and no repository's content is fetched more than once.
C6_AnyListing ==
    Scanning => ScanOrderAndDisjoint

\* C6: the same, for an organization listing that names no repository twice.
C6_ListingWithoutRepeats ==
    (Scanning /\ NoRepeat(listing)) => ScanOrderAndDisjoint

\* a scan of two different repositories filed both as empty
C6_Witness ==
    /\ Scanning
    /\ pc = "done"
    /\ NoRepeat(listing)
    /\ Len(empty) = 2

\* the filter as documented: which repositories a visibility value lets through
Allowed(repo, v) ==
    CASE v = "public" -> ~repo.private
      [] v = "private" -> repo.private
      [] OTHER -> TRUE

\* the listing positions the loop has dealt with
Passed == {k \in 1..Len(repos) : k < i \/ (k = i /\ pc \in {"await", "failed"})}

\* C7: the scan considers exactly the repositories the visibility filter lets
\* through: no private one under 'public', no public one under 'private', and
\* under 'all' (the default) none is skipped for its visibility.
C7_VisibilityFilter ==
    (Scanning /\ i >= 1) =>
        /\ visibility \in {"all", "public", "private"}
        /\ Range(fetched) = {k \in Passed : Allowed(repos[k], visibility) /\ ~repos[k].archived}
        /\ Reported \subseteq {repos[k].full_name : k \in Range(fetched)}
        /\ listing = repos

\* under 'public' a listing of a private and a public repository was scanned
\* and only one of them fetched
C7_Witness ==
    /\ Scanning
    /\ pc = "done"
    /\ visibility = "public"
    /\ Len(repos) = 2
    /\ repos[1].private /\ ~repos[1].archived
    /\ ~repos[2].private /\ ~repos[2].archived
    /\ fetched = <<2>>
    /\ Reported # {}

\* C8: an archived repository never appears in empty or readmeOnly, under
\* every visibility filter and whatever its contents.
C8_ArchivedNeverReported ==
    Scanning =>
        \A k \in 1..Len(repos) :
            repos[k].archived =>
                /\ repos[k].full_name \notin Reported
                /\ k \notin Range(fetched)

\* a scan under 'private' went past an archived private repository and
\* reported another one
C8_Witness ==
    /\ Scanning
    /\ pc = "done"
    /\ visibility = "private"
    /\ \E k \in 1..Len(repos) : repos[k].archived /\ repos[k].private
    /\ Reported # {}

\* C11: content fetches are issued one at a time and in listing order: a
\* fetch starts only when every earlier fetch has been answered, never for a
\* repository the visibility filter or the archived test skips, and never
\* after a fetch failed with a fatal error.
C11_SequentialFetches ==
    [][Scanning =>
          /\ Cardinality(inflight') <= 1
          /\ fetched' # fetched =>
                /\ inflight = {}
                /\ pc # "failed"
                /\ ~Fatal(response)
                /\ \E k \in 1..Len(repos) :
                      /\ fetched' = Append(fetched, k)
                      /\ inflight' = {k}
                      /\ \A j \in Range(fetched) : j < k
                      /\ Allowed(repos[k], visibility)
                      /\ ~repos[k].archived]_vars

\* the second fetch of a scan is under way, the first one answered
C11_Witness ==
    /\ Scanning
    /\ pc = "await"
    /\ fetched = <<1, 2>>
    /\ inflight = {2}
    /\ response.kind \in {"array", "reject"}

\* the three dates of a run that created an issue
TitleDate == createdIssues[1].title[4]
HeadingDate == createdIssues[1].body[4]

\* C12: in every run that creates an issue, the date in the issue title, the
\* date in the heading line of the report body and the date field of the
\* result are the same YYYY-MM-DD value, even when the clock passes midnight
\* (UTC) during the run.
C12_OneDatePerRun ==
    (entry = "run" /\ pc = "done" /\ result.issueCreated) =>
        /\ TitleDate = HeadingDate
        /\ HeadingDate = result.date

----------------------------------------------------------------------------
(* Claims about generateReportBody, under SpecReport *)

\* the rows of the table: the pieces between the table header and the
\* trailing note, three to a row
TableRows(text) ==
    LET h == CHOOSE k \in 1..Len(text) : text[k] = TableHeader
        f == CHOOSE k \in 1..Len(text) : text[k] = Footer
        n == (f - h - 1) \div 3
    IN  [k \in 1..n |-> SubSeq(text, h + 3 * k - 2, h + 3 * k)]

\* C10: the table has exactly one row per input entry: an 'empty' row for
\* each element of empty in order, then a 'README-only' row for each element
\* of readmeOnly in order; heading and visibility line come before the table
\* and the note after it.
C10_OneRowPerEntry ==
    (entry = "generateReportBody" /\ pc = "done") =>
        LET h == 9
            rows == TableRows(body)
        IN  /\ result = Return(body)
            /\ Len(body) = h + 3 * (Len(empty) + Len(readmeOnly)) + 1
            /\ SubSeq(body, 1, 5) =
                  <<"# Empty Repo Report for '", org, "' (", DateOf(clock), ")\n\n">>
            /\ SubSeq(body, 6, 8) = <<"**Visibility:** ", visibility, "\n\n">>
            /\ body[h] = TableHeader
            /\ body[Len(body)] = Footer
            /\ Len(rows) = Len(empty) + Len(readmeOnly)
            /\ \A k \in 1..Len(empty) :
                  rows[k] = <<"| ", empty[k], " | empty |\n">>
            /\ \A k \in 1..Len(readmeOnly) :
                  rows[Len(empty) + k] = <<"| ", readmeOnly[k], " | README-only |\n">>

\* a report of two empty repositories and one README-only repository
C10_Witness ==
    /\ entry = "generateReportBody"
    /\ pc = "done"
    /\ Len(empty) = 2
    /\ empty[1] # empty[2]
    /\ Len(readmeOnly) >= 1
    /\ Len(TableRows(body)) = 3

====
